---- MODULE Spec2Model ----
(***************************************************************************)
(* A model of glucifer's Store / Figure layer (src/glucifer/_glucifer.py): *)
(* the store's accumulated drawing-object list, default naming, the live   *)
(* write path and the view-only reconciliation path of Store._generate,    *)
(* the per-store LavaVu viewer instance, and the Figure operations built   *)
(* on them (save, show, viewer, open_viewer, send_command, close_viewer).  *)
(*                                                                         *)
(* Python dictionaries are functions whose DOMAIN is the set of keys; the  *)
(* empty dictionary is << >>.  Python lists are sequences.                 *)
(***************************************************************************)
EXTENDS Integers, Sequences, FiniteSets, TLC

\* ------------------------------------------------------------------ bounds
\* longest list of drawing objects a figure passes to a render
MaxActive == 2
\* longest persisted state document a view-only read returns
MaxDoc == 2
\* cap on the number of LavaVu viewer instances ever constructed
MaxViewers == 3
\* number of transmissions of one command whose outcome is drawn
MaxSends == 3
\* cap on the property-setter assignments made on one figure
MaxSets == 2
\* cap on the commands added to the script of one figure
MaxScript == 3
MaxNexts == 7

\* ---------------------------------------------------------------- universe
None == "None"

\* the user's store (shared by figures F1 and F2) and the default store that
\* figure G creates for itself
Stores == {"db", "own"}
Figs == {"F1", "F2", "G"}
StoreOf(f) == IF f = "G" THEN "own" ELSE "db"

\* drawing objects a and b, and k, the colour bar nested in a
Obj == {"a", "b", "k"}
DrawObj == {"a", "b"}
ColourBarOf(o) == IF o = "a" THEN "k" ELSE None
\* obj._dr.type[3:], the native type name with its "luc" prefix stripped
TypeTag(o) == IF o = "k" THEN "DrawingObject" ELSE "Points"

Range(s) == {s[i] : i \in 1..Len(s)}

\* ------------------------------------------------------------ dictionaries
Has(d, k) == k \in DOMAIN d
DictUpdate(d, e) ==
    [k \in DOMAIN d \cup DOMAIN e |-> IF k \in DOMAIN e THEN e[k] ELSE d[k]]
DictSet(d, k, v) == DictUpdate(d, k :> v)

\* ------------------------------------------------------------------ inputs
\* lists of distinct drawing objects a figure can hold
ActiveLists ==
    {l \in UNION {[1..n -> DrawObj] : n \in 0..MaxActive} :
        \A i, j \in 1..Len(l) : l[i] = l[j] => i = j}

\* persisted descriptors and FigureStates a view-only read can return
PObj(n, v) == [name |-> n, visible |-> v, colour |-> "green", size |-> 1]
PLists == {<<PObj("A", v), PObj("B", ~v)>> : v \in BOOLEAN}
PProps == [title |-> "t0", zoomstep |-> 0]
PView == [title |-> "v0", rotate |-> 1]
PView2 == [title |-> "v1"]
PState(fig, l) ==
    [figure |-> fig, properties |-> PProps, views |-> <<PView, PView2>>,
     objects |-> l]
DocNames == {"F1", "Old"}
Docs ==
    UNION {{[i \in 1..n |-> PState(names[i], l)] :
               names \in [1..n -> DocNames], l \in PLists} : n \in 1..MaxDoc}

\* the native call of an operation that raises a RuntimeError, if any: a
\* database call of Store._generate or Store._read_state ("db"), the viewer
\* that Store._generate or Store._read_state runs ("viewer"), or the image /
\* WebGL export ("image")
NoErr == "none"
Errs == {NoErr, "db", "viewer", "image"}

VARIABLES
    figs,        \* the figures that were constructed
    figobjs,     \* Figure._drawingObjects, per figure
    figprops,    \* the Figure's own mapping (its properties), per figure
    ret,         \* what the last operation returned
    ctor,        \* Store.__init__ arguments of store db, and the files then on disk
    filename,    \* Store.filename, per store (<< >> is None)
    viewonly,    \* Store._viewonly, per store
    disk,        \* the files that exist
    lavavu,      \* the module global lavavu is set
    rank,        \* uw.rank()
    objects,     \* Store._objects, per store
    viewer,      \* Store.viewer, per store: 0 is None, else the instance
    made,        \* viewer instances constructed so far, per store
    properties,  \* obj.properties, per drawing object
    parent,      \* obj.parent, per drawing object
    wrote,       \* lucDatabase_WriteState calls of the last operation
    log,         \* lines printed by the last operation
    raised,      \* exception the last operation let reach its caller
    sel,         \* index of the FigureState the last reconciliation selected
    viewerProc,  \* Figure._viewerProc, per figure: none, or a process alive or dead
    procs,       \* live external viewer processes spawned, per figure
    net,         \* the transmissions (TRUE: answered), the seconds slept, the
                 \* retries and the processes spawned of the last operation, and
                 \* how many transmissions preceded its kill (-1: no kill)
    script,      \* Figure._script, per figure
    added,       \* every command ever added to the script, per figure
    propsLog,    \* the property-setter assignments made so far, per figure
    opacity,     \* Drawing._opacity of the drawing constructed last, in tenths
    dprops,      \* Drawing._properties of one drawing, values as Python literals
    saved,       \* a Viewer: list(self), _index and the figures next() returned
    lastOp,      \* the last operation and its arguments
    repeat       \* the last two operations rendered the same figure and both
                 \* wrote its state

vars == <<figs, figobjs, figprops, ret, ctor, filename, viewonly, disk,
          lavavu, rank, objects, viewer, made, properties, parent, wrote, log,
          raised, sel, viewerProc, procs, net, script, added, propsLog, opacity,
          dprops, saved, lastOp, repeat>>

\* an operation that has not touched the external viewer
NoNet == [sent |-> << >>, slept |-> 0, retries |-> 0, spawns |-> 0, kill |-> -1]

\* the part of the state an operation can change, as one record
Cur ==
    [objects |-> objects, viewer |-> viewer, made |-> made,
     properties |-> properties, parent |-> parent,
     disk |-> disk, wrote |-> << >>, log |-> << >>, raised |-> NoErr, sel |-> 0,
     ret |-> None, viewerProc |-> viewerProc, procs |-> procs,
     net |-> NoNet,
     script |-> script, added |-> added, propsLog |-> propsLog,
     opacity |-> opacity, dprops |-> dprops, saved |-> saved]

Becomes(m) ==
    /\ objects' = m.objects
    /\ viewer' = m.viewer
    /\ made' = m.made
    /\ properties' = m.properties
    /\ parent' = m.parent
    /\ wrote' = m.wrote
    /\ log' = m.log
    /\ raised' = m.raised
    /\ sel' = m.sel
    /\ disk' = m.disk
    /\ ret' = m.ret
    /\ viewerProc' = m.viewerProc
    /\ procs' = m.procs
    /\ net' = m.net
    /\ script' = m.script
    /\ added' = m.added
    /\ propsLog' = m.propsLog
    /\ opacity' = m.opacity
    /\ dprops' = m.dprops
    /\ saved' = m.saved

Op(name, f, s, doc, err) ==
    [op |-> name, fig |-> f, store |-> s, doc |-> doc, err |-> err]
\* an operation that takes the argument arg and makes no native call
OpArg(name, f, arg) ==
    [op |-> name, fig |-> f, store |-> None, doc |-> << >>, err |-> NoErr,
     arg |-> arg]
RenderOps == {"save", "saveimage", "show"}

\* operation op leaves the state m0 (evaluated once)
Done(m0, op) ==
    \E m \in {m0} :
        /\ Becomes(m)
        /\ lastOp' = op
        /\ repeat' = (/\ op.op \in RenderOps /\ lastOp.op \in RenderOps
                      /\ op.fig = lastOp.fig
                      /\ Len(m.wrote) = 1 /\ Len(wrote) = 1)

Raise(m, e) == [m EXCEPT !.raised = e]
Say(m, line) == [m EXCEPT !.log = Append(m.log, line)]
Return(m, v) == [m EXCEPT !.ret = v]


\* ------------------------------------------------------- Store.__init__
Lower(tok) == IF tok = "DB" THEN "db" ELSE IF tok = "GLDB" THEN "gldb" ELSE tok
\* filename.lower().endswith('.gldb') or filename.lower().endswith('.db');
\* a filename is its dot-separated parts, << >> is None
HasDbExt(fn) == Len(fn) > 1 /\ Lower(fn[Len(fn)]) \in {"gldb", "db"}
Normalise(fn) == IF fn # << >> /\ ~HasDbExt(fn) THEN Append(fn, "gldb") ELSE fn
\* (mutant) looks for the file under the name as given, extension not added
ViewOnlyOfRaw(view, fn, files) == view /\ fn # << >> /\ fn \in files

\* the store opens an existing database for viewing only
ViewOnlyOf(view, fn, files) == view /\ fn # << >> /\ Normalise(fn) \in files

\* Store.save: the name of the file the database is backed up to
SaveName(fn) == IF ~HasDbExt(fn) THEN Append(fn, "gldb") ELSE fn

FileNames == {<< >>, <<"vis">>, <<"vis", "DB">>}

\* Store.save: the root rank backs the database up to the file
StoreSaveFile(m, fn) ==
    IF rank = 0 THEN [m EXCEPT !.disk = @ \cup {SaveName(fn)}, !.ret = "filename"]
    ELSE [m EXCEPT !.ret = None]

\* ------------------------------------------------------- Store.lvrun
Built(m) == m.made["db"] + m.made["own"]
\* (mutant) constructs a viewer on every call
LvRunAlwaysNew(m, s, fails) ==
    IF fails THEN Raise(m, "RuntimeError")
    ELSE [m EXCEPT !.viewer[s] = Built(m) + 1, !.made[s] = @ + 1]

\* a single LavaVu instance per store: constructed once, then reconfigured
LvRun(m, s, fails) ==
    IF fails THEN Raise(m, "RuntimeError")
    ELSE IF m.viewer[s] = 0
         THEN [m EXCEPT !.viewer[s] = Built(m) + 1, !.made[s] = @ + 1]
         ELSE m

\* ------------------------------------------------------- Store._generate
RECURSIVE MergeObjectsDup(_, _, _, _)
\* (mutant) adds every walked object to the store's list, present or not
MergeObjectsDup(m, s, list, i) ==
    IF i > Len(list) THEN [m |-> m, list |-> list]
    ELSE LET obj == list[i]
             cb == ColourBarOf(obj)
             list1 == IF cb # None THEN Append(list, cb) ELSE list
             par1 == IF cb # None THEN [m.parent EXCEPT ![cb] = obj] ELSE m.parent
             par2 == [par1 EXCEPT ![obj] = None]
         IN  MergeObjectsDup([m EXCEPT !.parent = par2,
                                       !.objects[s] = Append(@, obj)],
                             s, list1, i + 1)

RECURSIVE MergeObjectsFront(_, _, _, _)
\* (mutant) puts a new object at the head of the store's list
MergeObjectsFront(m, s, list, i) ==
    IF i > Len(list) THEN [m |-> m, list |-> list]
    ELSE LET obj == list[i]
             cb == ColourBarOf(obj)
             list1 == IF cb # None THEN Append(list, cb) ELSE list
             par1 == IF cb # None THEN [m.parent EXCEPT ![cb] = obj] ELSE m.parent
             par2 == [par1 EXCEPT ![obj] = None]
             objs1 == IF obj \in Range(m.objects[s]) THEN m.objects[s]
                      ELSE <<obj>> \o m.objects[s]
         IN  MergeObjectsFront([m EXCEPT !.parent = par2, !.objects[s] = objs1],
                               s, list1, i + 1)

RECURSIVE MergeObjects(_, _, _, _)
\* walks list from position i: a nested colour bar is appended to the list
\* being walked and gets its parent set; every walked object has its parent
\* reset and joins the store's list unless already there
MergeObjects(m, s, list, i) ==
    IF i > Len(list) THEN [m |-> m, list |-> list]
    ELSE LET obj == list[i]
             cb == ColourBarOf(obj)
             list1 == IF cb # None THEN Append(list, cb) ELSE list
             par1 == IF cb # None THEN [m.parent EXCEPT ![cb] = obj] ELSE m.parent
             par2 == [par1 EXCEPT ![obj] = None]
             objs1 == IF obj \in Range(m.objects[s]) THEN m.objects[s]
                      ELSE Append(m.objects[s], obj)
         IN  MergeObjects([m EXCEPT !.parent = par2, !.objects[s] = objs1],
                          s, list1, i + 1)

\* (mutant) counts positions from one
DefaultNameOneBased(p, tag, o) ==
    IF Has(p, "colourbar") /\ p["colourbar"] # 0
    THEN "ColourBar_" \o ToString(o + 1)
    ELSE tag \o "_" \o ToString(o + 1)

\* the default name of the object at zero-based position o of the store's list
DefaultName(p, tag, o) ==
    IF Has(p, "colourbar") /\ p["colourbar"] # 0
    THEN "ColourBar_" \o ToString(o)
    ELSE tag \o "_" \o ToString(o)

RECURSIVE SetDefaultNamesAlways(_, _, _)
\* (mutant) renames every object from its current position on every render
SetDefaultNamesAlways(m, s, o) ==
    IF o >= Len(m.objects[s]) THEN m
    ELSE LET obj == m.objects[s][o + 1]
             p == m.properties[obj]
         IN  SetDefaultNamesAlways(
                 [m EXCEPT !.properties[obj] =
                     DictSet(p, "name", DefaultName(p, TypeTag(obj), o))],
                 s, o + 1)

RECURSIVE SetDefaultNames(_, _, _)
SetDefaultNames(m, s, o) ==
    IF o >= Len(m.objects[s]) THEN m
    ELSE LET obj == m.objects[s][o + 1]
             p == m.properties[obj]
             m1 == IF Has(p, "name") THEN m
                   ELSE [m EXCEPT !.properties[obj] =
                            DictSet(p, "name", DefaultName(p, TypeTag(obj), o))]
         IN  SetDefaultNames(m1, s, o + 1)

\* obj in objects or obj.parent and obj.parent in objects
IsActive(m, obj, active) ==
    obj \in Range(active) \/ (m.parent[obj] # None /\ m.parent[obj] \in Range(active))

\* (mutant) shows the active objects and leaves the others as they are
SetVisibleKeep(m, s, active) ==
    [m EXCEPT !.properties =
        [o \in Obj |-> IF o \in Range(m.objects[s]) /\ IsActive(m, o, active)
                       THEN DictSet(m.properties[o], "visible", TRUE)
                       ELSE m.properties[o]]]

\* hides the objects that are not in this figure
SetVisible(m, s, active) ==
    [m EXCEPT !.properties =
        [o \in Obj |-> IF o \in Range(m.objects[s])
                       THEN DictSet(m.properties[o], "visible", IsActive(m, o, active))
                       ELSE m.properties[o]]]

\* (mutant) exports the visible objects only
GetStateVisible(m, objs, props) ==
    [properties |-> props, views |-> <<props>>,
     objects |-> SelectSeq([i \in 1..Len(objs) |-> m.properties[objs[i]]],
                           LAMBDA d : d["visible"])]

\* Store._get_state
GetState(m, objs, props) ==
    [properties |-> props, views |-> <<props>>,
     objects |-> [i \in 1..Len(objs) |-> m.properties[objs[i]]]]

\* (mutant) stores the state under the name it carries
WriteStateByState(m, s, figname, state) ==
    [m EXCEPT !.wrote = Append(@, [store |-> s, figure |-> state.figure,
                                   state |-> state])]

\* lucDatabase_WriteState(self._db, figname, state)
WriteState(m, s, figname, state) ==
    [m EXCEPT !.wrote = Append(@, [store |-> s, figure |-> figname, state |-> state])]

\* (mutant) runs the viewer on every rank
GenerateLiveAnyRank(m, s, figname, active, props, err) ==
    LET m1 == SetVisible(m, s, active)
        m2 == WriteState(m1, s, figname, GetState(m1, m1.objects[s], props))
    IN  IF err = "db" THEN Raise(m1, "RuntimeError")
        ELSE LvRun(m2, s, err = "viewer")

GenerateLive(m, s, figname, active, props, err) ==
    LET m1 == SetVisible(m, s, active)
        m2 == WriteState(m1, s, figname, GetState(m1, m1.objects[s], props))
    IN  IF err = "db" THEN Raise(m1, "RuntimeError")
        ELSE IF lavavu /\ rank = 0 THEN LvRun(m2, s, err = "viewer")
        ELSE m2

\* Store._read_state: the document read through the viewer, or nothing
ReadState(m, s, doc, err) ==
    IF ~lavavu \/ rank > 0 THEN [m |-> m, ok |-> FALSE, states |-> << >>]
    ELSE IF err = "db"
         THEN [m |-> Raise(m, "RuntimeError"), ok |-> FALSE, states |-> << >>]
    ELSE IF err = "viewer"
         THEN [m |-> Say(m, "LavaVu error"), ok |-> FALSE, states |-> << >>]
         ELSE [m |-> LvRun(m, s, FALSE), ok |-> TRUE, states |-> doc]

\* (mutant) falls back to the first state
SelectStateFirst(states, figname) ==
    IF \E i \in 1..Len(states) : states[i].figure = figname
    THEN CHOOSE i \in 1..Len(states) :
            /\ states[i].figure = figname
            /\ \A j \in 1..(i - 1) : states[j].figure # figname
    ELSE 1

\* the first state whose figure is figname, else the last one
SelectState(states, figname) ==
    IF \E i \in 1..Len(states) : states[i].figure = figname
    THEN CHOOSE i \in 1..Len(states) :
            /\ states[i].figure = figname
            /\ \A j \in 1..(i - 1) : states[j].figure # figname
    ELSE Len(states)

RECURSIVE ReconcileKeep(_, _, _, _)
\* (mutant) merges the other way round: the persisted values win
ReconcileKeep(dbobj, m, active, k) ==
    IF k > Len(active) THEN dbobj
    ELSE LET p == m.properties[active[k]]
             d == IF dbobj["name"] = p["name"]
                  THEN DictSet(DictUpdate(p, dbobj), "visible", TRUE)
                  ELSE dbobj
         IN  ReconcileKeep(d, m, active, k + 1)

RECURSIVE Reconcile(_, _, _, _)
\* one persisted descriptor against the local objects from position k on
Reconcile(dbobj, m, active, k) ==
    IF k > Len(active) THEN dbobj
    ELSE LET p == m.properties[active[k]]
             d == IF dbobj["name"] = p["name"]
                  THEN DictSet(DictUpdate(dbobj, p), "visible", TRUE)
                  ELSE dbobj
         IN  Reconcile(d, m, active, k + 1)

\* (mutant) does not hide the persisted objects before matching them
ReconcileObjectsNoHide(m, dbobjs, active) ==
    IF Len(active) > 0
    THEN [j \in 1..Len(dbobjs) |-> Reconcile(dbobjs[j], m, active, 1)]
    ELSE [j \in 1..Len(dbobjs) |-> DictSet(dbobjs[j], "visible", TRUE)]

ReconcileObjects(m, dbobjs, active) ==
    IF Len(active) > 0
    THEN [j \in 1..Len(dbobjs) |->
             Reconcile(DictSet(dbobjs[j], "visible", FALSE), m, active, 1)]
    ELSE [j \in 1..Len(dbobjs) |-> DictSet(dbobjs[j], "visible", TRUE)]

\* (mutant) merges into the global properties only
MergePropsSkipView(state, props) ==
    [state EXCEPT !.properties = DictUpdate(@, props)]

\* state["properties"].update(props); state["views"][0].update(props)
MergeProps(state, props) ==
    [state EXCEPT !.properties = DictUpdate(@, props),
                  !.views[1] = DictUpdate(@, props)]

\* (mutant) a document that cannot be read is replaced by a default state
GenerateViewDefault(m, s, figname, active, props, doc, err) ==
    LET r == ReadState(m, s, doc, err)
        i == SelectState(r.states, figname)
        state1 == MergeProps([r.states[i] EXCEPT
                                !.objects = ReconcileObjects(r.m, @, active)], props)
    IN  IF r.m.raised # NoErr THEN r.m
        ELSE IF ~r.ok \/ Len(r.states) = 0
             THEN WriteState(r.m, s, figname,
                             [figure |-> figname, properties |-> props,
                              views |-> <<props>>, objects |-> << >>])
        ELSE WriteState([r.m EXCEPT !.sel = i], s, figname, state1)

GenerateView(m, s, figname, active, props, doc, err) ==
    LET r == ReadState(m, s, doc, err)
        i == SelectState(r.states, figname)
        state == r.states[i]
        state1 == MergeProps([state EXCEPT
                                !.objects = ReconcileObjects(r.m, @, active)], props)
    IN  IF r.m.raised # NoErr THEN r.m
        ELSE IF ~r.ok THEN Raise(r.m, "TypeError")
        ELSE IF Len(r.states) = 0 THEN Raise(r.m, "IndexError")
        ELSE WriteState([r.m EXCEPT !.sel = i], s, figname, state1)

Generate(m, s, figname, objs, props, doc, err) ==
    LET w == MergeObjects(m, s, objs, 1)
        m1 == SetDefaultNames(w.m, s, 0)
    IN  IF ~viewonly[s] THEN GenerateLive(m1, s, figname, w.list, props, err)
        ELSE GenerateView(m1, s, figname, w.list, props, doc, err)

\* ------------------------------------------------------- Figure
\* Figure._generate_DB
GenerateDB(m, f, doc, err) ==
    Generate(m, StoreOf(f), f, figobjs[f], figprops[f], doc, err)

\* Figure._generate_image: "" when the viewer raises, None off the root rank
GenerateImage(m, f, err) ==
    IF ~lavavu \/ rank > 0 THEN Return(m, None)
    ELSE IF err = "image" THEN Return(Say(m, "LavaVu error"), "")
    ELSE Return(LvRun(m, StoreOf(f), FALSE), "image")

\* Figure._generate_HTML
GenerateHTML(m, f, err) ==
    IF ~lavavu \/ rank > 0 THEN Return(m, None)
    ELSE IF err = "image" THEN Return(Say(m, "LavaVu error"), "")
    ELSE Return(LvRun(m, StoreOf(f), FALSE), "html")

\* (mutant) exports whether or not a filename is given
FigureSaveExport(m, f, named, type, doc, err) ==
    LET m1 == GenerateDB(m, f, doc, err)
    IN  IF m1.raised # NoErr THEN m1
        ELSE IF ~lavavu \/ rank > 0 THEN Return(m1, None)
        ELSE GenerateImage(m1, f, err)

\* Figure.save: named is FALSE when the filename is None
FigureSave(m, f, named, type, doc, err) ==
    LET m1 == GenerateDB(m, f, doc, err)
    IN  IF m1.raised # NoErr THEN m1
        ELSE IF ~named \/ ~lavavu \/ rank > 0 THEN Return(m1, None)
        ELSE IF type = "webgl"
             THEN IF err = "image" THEN Return(Say(m1, "LavaVu error"), None)
                  ELSE Return(LvRun(m1, StoreOf(f), FALSE), "html")
             ELSE GenerateImage(m1, f, err)

\* Figure.show: inline when __IPYTHON__ is defined (ipython), else the
\* NameError handler falls back to save(filename=self.name)
FigureShow(m, f, ipython, type, doc, err) ==
    IF ipython
    THEN LET m1 == GenerateDB(m, f, doc, err)
         IN  IF m1.raised = "RuntimeError"
             THEN Return(Say(Raise(m1, NoErr), "Error creating image"), None)
             ELSE IF m1.raised # NoErr THEN m1
             ELSE IF ~lavavu \/ rank > 0 THEN Return(m1, None)
             ELSE IF type = "webgl" THEN Return(GenerateHTML(m1, f, err), None)
             ELSE Return(GenerateImage(m1, f, err), None)
    ELSE Return(FigureSave(m, f, TRUE, type, doc, err), None)

\* Figure.viewer: path says whether the database already has a path
FigureViewer(m, f, path, doc, err) ==
    LET m1 == IF path THEN m ELSE GenerateDB(m, f, doc, err)
        m2 == LvRun(m1, StoreOf(f), path /\ err = "viewer")
    IN  IF ~(lavavu /\ rank = 0) THEN Return(m, None)
        ELSE IF m1.raised # NoErr THEN m1
        ELSE IF m2.raised # NoErr THEN m2
        ELSE Return(m2, "viewer")

\* the value v, evaluated once, handed on to F
Then(v, F(_)) == CHOOSE r \in {F(w) : w \in {v}} : TRUE

\* Figure.save_database(filename): regenerate, then Store.save
SaveDatabase(m, f, fn, err) ==
    Then(GenerateDB(m, f, << >>, err),
         LAMBDA m1 : IF m1.raised # NoErr THEN m1 ELSE StoreSaveFile(m1, fn))

\* the temporary database file of a store that has no filename
TmpName == <<"gluciferDB", "gldb">>

\* (mutant) spawns a process whether or not one is running
FigureOpenViewerAlways(m, f, background, err) ==
    Then(IF filename[StoreOf(f)] = << >> THEN SaveDatabase(m, f, TmpName, err) ELSE m,
         LAMBDA m1 :
            IF m1.raised # NoErr THEN m1
            ELSE IF ~(lavavu /\ rank = 0) THEN Return(m1, None)
            ELSE IF background
                 THEN Return([m1 EXCEPT !.viewerProc[f] = "alive",
                                        !.procs[f] = @ + 1,
                                        !.net.spawns = @ + 1], "html")
                 ELSE Return(LvRun(m1, StoreOf(f), FALSE), None))

\* Figure.open_viewer: a store without a filename is first saved to a
\* temporary file; a viewer process is spawned unless one is running
FigureOpenViewer(m, f, background, err) ==
    Then(IF filename[StoreOf(f)] = << >> THEN SaveDatabase(m, f, TmpName, err) ELSE m,
         LAMBDA m1 :
            IF m1.raised # NoErr THEN m1
            ELSE IF m1.viewerProc[f] = "alive" THEN Return(m1, None)
            ELSE IF ~(lavavu /\ rank = 0) THEN Return(m1, None)
            ELSE IF background
                 THEN Return([m1 EXCEPT !.viewerProc[f] = "alive",
                                        !.procs[f] = @ + 1,
                                        !.net.spawns = @ + 1], "html")
                 ELSE Return(LvRun(m1, StoreOf(f), FALSE), None))

RECURSIVE FigureSendCommandAgain(_, _, _, _, _, _, _)
\* (mutant) the retry may itself retry
FigureSendCommandAgain(m, f, retry, i, nets, errAt, dies) ==
    IF ~(lavavu /\ rank = 0) \/ i > Len(nets) THEN m
    ELSE Then(FigureOpenViewer(m, f, TRUE, IF errAt = i THEN "db" ELSE NoErr),
              LAMBDA m1 :
                LET m2 == [m1 EXCEPT !.net.sent = Append(@, nets[i])]
                    m3 == Say(m2, "failed, no response")
                    m4 == [Say(m3, "retrying in 1s") EXCEPT
                             !.net.slept = @ + 1, !.net.retries = @ + 1,
                             !.procs[f] = IF dies /\ m1.viewerProc[f] = "alive"
                                          THEN @ - 1 ELSE @,
                             !.viewerProc[f] = IF dies /\ @ = "alive" THEN "dead" ELSE @]
                IN  IF m1.raised # NoErr THEN m1
                    ELSE IF nets[i] THEN Return(m2, None)
                    ELSE IF retry
                         THEN FigureSendCommandAgain(m4, f, retry, i + 1, nets, errAt, dies)
                         ELSE Return(Say(m3, "failed, skipping"), None))

RECURSIVE FigureSendCommand(_, _, _, _, _, _, _)
\* Figure.send_command(cmd, retry), as the i-th send of one call from outside:
\* nets[i] says whether the i-th transmission is answered, errAt which
\* open_viewer call meets a native error (0: none), dies whether the viewer
\* process exits during the wait.  There is no send beyond the drawn outcomes.
FigureSendCommand(m, f, retry, i, nets, errAt, dies) ==
    IF ~(lavavu /\ rank = 0) \/ i > Len(nets) THEN m
    ELSE Then(FigureOpenViewer(m, f, TRUE, IF errAt = i THEN "db" ELSE NoErr),
              LAMBDA m1 :
                LET m2 == [m1 EXCEPT !.net.sent = Append(@, nets[i])]
                    m3 == Say(m2, "failed, no response")
                    m4 == [Say(m3, "retrying in 1s") EXCEPT
                             !.net.slept = @ + 1, !.net.retries = @ + 1,
                             !.procs[f] = IF dies /\ m1.viewerProc[f] = "alive"
                                          THEN @ - 1 ELSE @,
                             !.viewerProc[f] = IF dies /\ @ = "alive" THEN "dead" ELSE @]
                IN  IF m1.raised # NoErr THEN m1
                    ELSE IF nets[i] THEN Return(m2, None)
                    ELSE IF retry
                         THEN FigureSendCommand(m4, f, FALSE, i + 1, nets, errAt, dies)
                         ELSE Return(Say(m3, "failed, skipping"), None))

\* Popen.kill() on the process the figure tracks
Kill(m, f) ==
    [m EXCEPT !.procs[f] = IF m.viewerProc[f] = "alive" THEN @ - 1 ELSE @,
              !.viewerProc[f] = IF @ = "alive" THEN "dead" ELSE @,
              !.net.kill = Len(m.net.sent)]

\* (mutant) forgets the process without killing it
FigureCloseViewerNoKill(m, f, nets, errAt, dies) ==
    IF m.viewerProc[f] = "alive"
    THEN Then(FigureSendCommand(m, f, TRUE, 1, nets, errAt, dies),
              LAMBDA m1 : IF m1.raised # NoErr THEN m1
                          ELSE Return([m1 EXCEPT !.viewerProc[f] = "none"], None))
    ELSE Return([m EXCEPT !.viewerProc[f] = "none"], None)

\* Figure.close_viewer: quit is sent to a live process, which is then killed
FigureCloseViewer(m, f, nets, errAt, dies) ==
    IF m.viewerProc[f] = "alive"
    THEN Then(FigureSendCommand(m, f, TRUE, 1, nets, errAt, dies),
              LAMBDA m1 : IF m1.raised # NoErr THEN m1
                          ELSE Then(Kill(m1, f),
                                    LAMBDA m2 : Return([m2 EXCEPT !.viewerProc[f] = "none"],
                                                       None)))
    ELSE Return([m EXCEPT !.viewerProc[f] = "none"], None)

\* (mutant) the assignment replaces the mapping
FigureSetPropertiesReplace(p, newProps) == newProps
\* Figure._setProperties, reached through the properties setter: self.update
FigureSetProperties(p, newProps) == DictUpdate(p, newProps)

RECURSIVE Join(_)
\* '\n'.join(seq)
Join(seq) ==
    IF seq = << >> THEN ""
    ELSE IF Len(seq) = 1 THEN seq[1]
    ELSE seq[1] \o "\n" \o Join(Tail(seq))

\* the truth value Python gives the argument of script: None, "" and [] are false
Truthy(cmd) ==
    \/ cmd.kind = "list" /\ cmd.val # << >>
    \/ cmd.kind = "str" /\ cmd.val # <<"">>

\* Figure.script(cmd): a list extends the script, a string is appended, and
\* anything false empties it; the script is returned joined by newlines
FigureScript(m, f, cmd) ==
    Then(IF Truthy(cmd)
         THEN [m EXCEPT !.script[f] = @ \o cmd.val, !.added[f] = @ \o cmd.val]
         ELSE [m EXCEPT !.script[f] = << >>],
         LAMBDA m1 : Return(m1, Join(m1.script[f])))

\* Drawing.__init__(opacity=op), op in tenths: outside [-1, 1] is a ValueError
DrawingInit(m, op) ==
    IF op > 10 \/ op < -10 THEN Raise([m EXCEPT !.opacity = None], "ValueError")
    ELSE [m EXCEPT !.opacity = op]

\* the orders in which a dictionary may hold some of the keys of S
KeyOrders(S) ==
    {q \in UNION {[1..k -> S] : k \in 0..Cardinality(S)} :
        \A i, j \in DOMAIN q : i # j => q[i] # q[j]}

\* Viewer.next: if self._index >= len(self): self._index = 0
WrapIndexLast(index, n) == IF index >= n THEN n - 1 ELSE index

WrapIndex(index, n) == IF index >= n THEN 0 ELSE index

\* Viewer.next
ViewerNext(m) ==
    LET i == WrapIndex(m.saved.index, Len(m.saved.keys)) IN
    IF i + 1 \notin DOMAIN m.saved.keys
    THEN Raise([m EXCEPT !.saved.index = i], "IndexError")
    ELSE Return([m EXCEPT !.saved.index = i + 1,
                          !.saved.out = Append(@, m.saved.keys[i + 1])],
                m.saved.keys[i + 1])

\* the Python literals that are false in a condition
Falsy == {"0", "False", "''"}

\* {k:v for k,v in self._properties.iteritems() if v}
TruthyItems(p) == [k \in {j \in DOMAIN p : p[j] \notin Falsy} |-> p[k]]

\* Drawing._updateProperties(newProps, overwrite)
UpdateProperties(p, newProps, overwrite) ==
    IF overwrite THEN DictUpdate(p, newProps)
    ELSE DictUpdate(newProps, TruthyItems(p))

\* ----------------------------------------------------------------- actions
\* what no operation after construction assigns
FixedStore == UNCHANGED <<figs, figobjs, ctor, filename, viewonly, lavavu, rank>>
Fixed == FixedStore /\ UNCHANGED figprops

Types == {"image", "webgl"}
OneDoc == <<PState("F1", <<PObj("A", TRUE), PObj("B", FALSE)>>)>>
\* how the native calls of one operation on store s can go: the native error,
\* if any, and the document that a state read returns
Outcomes(s, errs) ==
    IF viewonly[s] /\ lavavu /\ rank = 0
    THEN {[err |-> NoErr, doc |-> d] : d \in Docs \cup {<< >>}}
         \cup {[err |-> e, doc |-> IF e = "image" THEN OneDoc ELSE << >>] :
                  e \in errs \ {NoErr}}
    ELSE {[err |-> e, doc |-> << >>] : e \in errs}

\* Figure.save() without a filename
SaveFigure(f) ==
    \E o \in Outcomes(StoreOf(f), Errs \ {"image"}) :
        /\ f \in figs
        /\ Built(Cur) < MaxViewers
        /\ Done(FigureSave(Cur, f, FALSE, "image", o.doc, o.err),
                Op("save", f, StoreOf(f), o.doc, o.err))
        /\ Fixed

\* Figure.save(filename, type=type)
SaveImage(f) ==
    \E type \in Types, o \in Outcomes(StoreOf(f), Errs) :
        /\ f \in figs
        /\ Built(Cur) < MaxViewers
        /\ Done(FigureSave(Cur, f, TRUE, type, o.doc, o.err),
                Op("saveimage", f, StoreOf(f), o.doc, o.err))
        /\ Fixed

\* Figure.show(type)
Show(f) ==
    \E ipython \in BOOLEAN, type \in Types, o \in Outcomes(StoreOf(f), Errs) :
        /\ f \in figs
        /\ Built(Cur) < MaxViewers
        /\ Done(FigureShow(Cur, f, ipython, type, o.doc, o.err),
                Op("show", f, StoreOf(f), o.doc, o.err))
        /\ Fixed

\* Figure.viewer()
FigViewer(f) ==
    \E path \in BOOLEAN, o \in Outcomes(StoreOf(f), Errs \ {"image"}) :
        /\ f \in figs
        /\ Built(Cur) < MaxViewers
        /\ Done(FigureViewer(Cur, f, path, o.doc, o.err),
                Op("viewer", f, StoreOf(f), o.doc, o.err))
        /\ Fixed

\* Store._read_state called on its own (as Viewer.__init__ does)
StoreReadState(s) ==
    \E o \in Outcomes(s, Errs \ {"image"}) :
        /\ s \in {StoreOf(f) : f \in figs}
        /\ Built(Cur) < MaxViewers
        /\ Done(LET r == ReadState(Cur, s, o.doc, o.err)
                IN  Return(r.m, IF r.ok THEN "states" ELSE None),
                Op("readstate", None, s, o.doc, o.err))
        /\ Fixed

\* Store.lvrun called on its own
StoreLvRun(s) ==
    \E fails \in BOOLEAN :
        /\ s \in {StoreOf(f) : f \in figs}
        /\ Built(Cur) < MaxViewers
        /\ Done(IF fails THEN LvRun(Cur, s, TRUE)
                ELSE Return(LvRun(Cur, s, FALSE), "viewer"),
                Op("lvrun", None, s, << >>, IF fails THEN "viewer" ELSE NoErr))
        /\ Fixed

\* Store.save(filename): the root rank backs the database up to the file
StoreSave(s) ==
    \E fn \in {<<"vis">>, <<"vis", "gldb">>} :
        /\ s \in {StoreOf(f) : f \in figs}
        /\ Done(StoreSaveFile(Cur, fn), Op("storesave", None, s, << >>, NoErr))
        /\ Fixed

\* the open_viewer call that can meet a native error: only a store without
\* a filename is regenerated by open_viewer
ErrAts(f) == IF filename[StoreOf(f)] = << >> THEN 0..MaxSends ELSE {0}

\* Figure.open_viewer(background=background)
OpenViewer(f) ==
    \E background \in BOOLEAN, e \in {a \in ErrAts(f) : a <= 1} :
        /\ f \in figs
        /\ Built(Cur) < MaxViewers
        /\ Done(FigureOpenViewer(Cur, f, background, IF e = 1 THEN "db" ELSE NoErr),
                Op("open", f, StoreOf(f), << >>, IF e = 1 THEN "db" ELSE NoErr))
        /\ Fixed

\* Figure.send_command(cmd)
SendCommand(f) ==
    \E nets \in [1..MaxSends -> BOOLEAN], e \in ErrAts(f), dies \in BOOLEAN :
        /\ f \in figs
        /\ Done(FigureSendCommand(Cur, f, TRUE, 1, nets, e, dies),
                Op("send", f, StoreOf(f), << >>, IF e > 0 THEN "db" ELSE NoErr))
        /\ Fixed

\* Figure.close_viewer()
CloseViewer(f) ==
    \E nets \in [1..MaxSends -> BOOLEAN], e \in ErrAts(f), dies \in BOOLEAN :
        /\ f \in figs
        /\ Done(FigureCloseViewer(Cur, f, nets, e, dies),
                Op("close", f, StoreOf(f), << >>, IF e > 0 THEN "db" ELSE NoErr))
        /\ Fixed

\* the external viewer process of figure f exits
ProcExit(f) ==
    /\ f \in figs
    /\ viewerProc[f] = "alive"
    /\ Done([Cur EXCEPT !.viewerProc[f] = "dead", !.procs[f] = @ - 1],
            Op("exit", f, StoreOf(f), << >>, NoErr))
    /\ Fixed

\* the mappings assigned through the properties setter
PropSets == {[title |-> "t3"], [axis |-> FALSE, margin |-> 5],
             [title |-> "t4", margin |-> 7]}

\* fig.properties = value
SetProperties(f) ==
    \E value \in PropSets :
        /\ f \in figs
        /\ Len(propsLog[f]) < MaxSets
        /\ figprops' = [figprops EXCEPT ![f] = FigureSetProperties(@, value)]
        /\ Done([Cur EXCEPT !.propsLog[f] = Append(@, value)],
                OpArg("setprops", f, value))
        /\ FixedStore

\* the arguments of script: none, a string, the empty string, a list
ScriptCmds ==
    {[kind |-> "none", val |-> << >>], [kind |-> "str", val |-> <<"">>],
     [kind |-> "str", val |-> <<"c1">>], [kind |-> "str", val |-> <<"c2">>],
     [kind |-> "list", val |-> <<"c2", "c1">>], [kind |-> "list", val |-> << >>]}

\* Figure.script(cmd)
Script(f) ==
    \E cmd \in ScriptCmds :
        /\ f \in figs
        /\ Len(added[f]) + Len(cmd.val) <= MaxScript
        /\ Done(FigureScript(Cur, f, cmd), OpArg("script", f, cmd))
        /\ Fixed

\* opacities in tenths, on both sides of each limit of the constructor
Opacities == {-20, -11, -10, -5, 0, 5, 10, 11}

\* Drawing(opacity=op)
NewDrawing ==
    \E op \in Opacities :
        /\ Done(DrawingInit(Cur, op), OpArg("drawing", None, op))
        /\ Fixed

\* the mappings passed to _updateProperties
NewPropSets ==
    {[ticks |-> "0"], [ticks |-> "2", font |-> "''"], [font |-> "'small'"],
     [scientific |-> "False"]}

\* drawing._updateProperties(newProps, overwrite)
DrawingUpdate ==
    \E newProps \in NewPropSets, overwrite \in BOOLEAN :
        /\ Done([Cur EXCEPT !.dprops = UpdateProperties(@, newProps, overwrite)],
                OpArg("update", None,
                      [old |-> dprops, new |-> newProps, overwrite |-> overwrite]))
        /\ Fixed

\* saved = glucifer.Viewer(filename): one figure per state read from the
\* database, held in the dictionary under its name
NewViewer ==
    \E keys \in (IF lavavu THEN KeyOrders(Figs) ELSE {<< >>}) :
        /\ Done([Cur EXCEPT !.saved = [keys |-> keys, index |-> 0, out |-> << >>]],
                OpArg("viewer()", None, keys))
        /\ Fixed

\* saved.next()
SavedNext ==
    /\ Len(saved.out) < MaxNexts
    /\ Done(ViewerNext(Cur), OpArg("next", None, saved.index))
    /\ Fixed

\* Store.empty
Empty(s) ==
    /\ s \in {StoreOf(f) : f \in figs}
    /\ Done([Cur EXCEPT !.objects[s] = << >>],
            Op("empty", None, s, << >>, NoErr))
    /\ Fixed

\* ------------------------------------------------------------------- Init
ObjPropsA == {<< >>, [name |-> "A", colour |-> "blue"]}
ObjPropsB == {<< >>, [name |-> "A", colour |-> "red", visible |-> FALSE]}
ObjPropsK == [colourbar |-> 1]

DiskStates == {{}, {<<"vis">>}, {<<"vis", "gldb">>}, {<<"vis", "DB">>}}
Ctors == [filename : FileNames, view : BOOLEAN, disk : DiskStates]

\* the properties a figure is constructed with
FigProps0(f) == IF f = "F1" THEN [title |-> "t1"] ELSE [title |-> "t2", axis |-> TRUE]

\* the state right after the stores, figures and drawing objects are constructed
Constructed(PA, PB) ==
    /\ filename = [s \in Stores |-> IF s = "db" THEN Normalise(ctor.filename) ELSE << >>]
    /\ viewonly = [s \in Stores |->
                     s = "db" /\ ViewOnlyOf(ctor.view, ctor.filename, ctor.disk)]
    /\ disk = ctor.disk
    /\ objects = [s \in Stores |-> << >>]
    /\ viewer = [s \in Stores |-> 0]
    /\ made = [s \in Stores |-> 0]
    /\ \E pa \in PA, pb \in PB :
          properties = [o \in Obj |-> IF o = "a" THEN pa
                                      ELSE IF o = "b" THEN pb ELSE ObjPropsK]
    /\ parent = [o \in Obj |-> None]
    /\ wrote = << >>
    /\ log = << >>
    /\ raised = NoErr
    /\ sel = 0
    /\ viewerProc = [f \in Figs |-> "none"]
    /\ procs = [f \in Figs |-> 0]
    /\ net = NoNet
    /\ ret = None
    /\ script = [f \in Figs |-> << >>]
    /\ added = [f \in Figs |-> << >>]
    /\ propsLog = [f \in Figs |-> << >>]
    /\ opacity = None
    /\ dprops = << >>
    /\ saved = [keys |-> << >>, index |-> 0, out |-> << >>]
    /\ lastOp = Op("init", None, None, << >>, NoErr)
    /\ repeat = FALSE
    /\ figprops = [f \in Figs |-> FigProps0(f)]

\* any store constructor call, for the store of figure F1, on the root rank
Init ==
    /\ ctor \in Ctors
    /\ lavavu = TRUE
    /\ rank = 0
    /\ figs = {"F1"}
    /\ figobjs = [f \in Figs |-> IF f = "F1" THEN <<"a">>
                                 ELSE IF f = "G" THEN <<"b">> ELSE << >>]
    /\ Constructed({<< >>}, {<< >>})

Next ==
    \/ \E f \in Figs : SaveFigure(f)
    \/ \E f \in Figs : SaveImage(f)
    \/ \E f \in Figs : Show(f)
    \/ \E f \in Figs : FigViewer(f)
    \/ \E s \in Stores : StoreReadState(s)
    \/ \E s \in Stores : StoreLvRun(s)
    \/ \E s \in Stores : StoreSave(s)
    \/ \E s \in Stores : Empty(s)

Spec == Init /\ [][Next]_vars

\* figure F1 with a live store, next to figure G with its own default store
InitStores ==
    /\ ctor = [filename |-> <<"vis">>, view |-> FALSE, disk |-> {}]
    /\ lavavu = TRUE
    /\ rank = 0
    /\ figs = {"F1", "G"}
    /\ figobjs = [f \in Figs |-> IF f = "F1" THEN <<"a">>
                                 ELSE IF f = "G" THEN <<"b">> ELSE << >>]
    /\ Constructed({<< >>}, {<< >>})

SpecStores == InitStores /\ [][Next]_vars

\* a live store shared by the figures F1 and F2, on the root rank
InitLive ==
    /\ ctor = [filename |-> <<"vis">>, view |-> FALSE, disk |-> {}]
    /\ lavavu = TRUE
    /\ rank = 0
    /\ figs = {"F1", "F2"}
    /\ figobjs \in [Figs -> ActiveLists]
    /\ figobjs["F1"] \in {<<"a">>, <<"a", "b">>}
    /\ figobjs["F2"] \in {<<"b">>, <<"b", "a">>}
    /\ figobjs["G"] = << >>
    /\ Constructed(ObjPropsA, {<< >>})

\* the figure operations that render, and Store.empty
NextFigure ==
    \/ \E f \in Figs : SaveFigure(f)
    \/ \E f \in Figs : SaveImage(f)
    \/ \E f \in Figs : Show(f)
    \/ \E s \in Stores : Empty(s)

SpecLive == InitLive /\ [][NextFigure]_vars

\* a store that views the existing database vis.gldb, for the figures F1 (any
\* list of local objects) and F2 (none)
InitView ==
    /\ ctor = [filename |-> <<"vis">>, view |-> TRUE, disk |-> {<<"vis", "gldb">>}]
    /\ lavavu = TRUE
    /\ rank = 0
    /\ figs = {"F1", "F2"}
    /\ figobjs \in [Figs -> ActiveLists]
    /\ figobjs["F2"] = << >>
    /\ figobjs["G"] = << >>
    /\ Constructed(ObjPropsA, ObjPropsB)

\* the renders of the figures, and Store.empty
NextRender ==
    \/ \E f \in Figs : SaveFigure(f)
    \/ \E s \in Stores : Empty(s)

SpecView == InitView /\ [][NextRender]_vars

\* figure F1 on a live store with or without a filename, on the root rank
InitCmd ==
    /\ ctor \in {c \in Ctors : c.filename \in {<< >>, <<"vis">>} /\ ~c.view /\ c.disk = {}}
    /\ lavavu = TRUE
    /\ rank = 0
    /\ figs = {"F1"}
    /\ figobjs = [f \in Figs |-> IF f = "F1" THEN <<"b">> ELSE << >>]
    /\ Constructed({<< >>}, {<< >>})

\* the operations on the external viewer of a figure, and its renders
NextCmd ==
    \/ \E f \in Figs : OpenViewer(f)
    \/ \E f \in Figs : SendCommand(f)
    \/ \E f \in Figs : CloseViewer(f)
    \/ \E f \in Figs : ProcExit(f)
    \/ \E f \in Figs : SaveFigure(f)

SpecCmd == InitCmd /\ [][NextCmd]_vars

\* a live or view-only store for the figures F1 and F2, on a rank other than
\* the root or without the rendering module
InitOff ==
    /\ ctor \in {[filename |-> << >>, view |-> FALSE, disk |-> {}],
                 [filename |-> <<"vis">>, view |-> FALSE, disk |-> {}],
                 [filename |-> <<"vis">>, view |-> TRUE, disk |-> {<<"vis", "gldb">>}]}
    /\ \E c \in {<<FALSE, 0>>, <<TRUE, 1>>, <<FALSE, 1>>} :
          lavavu = c[1] /\ rank = c[2]
    /\ figs = {"F1", "F2"}
    /\ figobjs \in [Figs -> ActiveLists]
    /\ figobjs["F1"] \in {<<"a">>, <<"a", "b">>}
    /\ figobjs["F2"] = <<"b">>
    /\ figobjs["G"] = << >>
    /\ Constructed({<< >>}, {<< >>})

\* the operations of Figure and Store that reach the viewer on the root rank
NextOff ==
    \/ \E f \in Figs : SaveFigure(f)
    \/ \E f \in Figs : SaveImage(f)
    \/ \E f \in Figs : Show(f)
    \/ \E f \in Figs : FigViewer(f)
    \/ \E f \in Figs : OpenViewer(f)
    \/ \E f \in Figs : SendCommand(f)
    \/ \E f \in Figs : CloseViewer(f)
    \/ \E s \in Stores : StoreSave(s)

SpecOff == InitOff /\ [][NextOff]_vars

\* a store that views the existing database vis.gldb, on a rank other than the
\* root
InitRank ==
    /\ ctor = [filename |-> <<"vis">>, view |-> TRUE, disk |-> {<<"vis", "gldb">>}]
    /\ lavavu \in BOOLEAN
    /\ rank = 1
    /\ figs = {"F1", "F2"}
    /\ figobjs \in [Figs -> ActiveLists]
    /\ figobjs["G"] = << >>
    /\ Constructed(ObjPropsA, ObjPropsB)

SpecRank == InitRank /\ [][NextRender]_vars

\* figure F1 on a live store
InitFig ==
    /\ ctor = [filename |-> <<"vis">>, view |-> FALSE, disk |-> {}]
    /\ lavavu = TRUE
    /\ rank = 0
    /\ figs = {"F1"}
    /\ figobjs = [f \in Figs |-> IF f = "F1" THEN <<"a">> ELSE << >>]
    /\ Constructed({<< >>}, {<< >>})

\* the operations on a figure's properties and script, and Drawing()
NextFig ==
    \/ \E f \in Figs : SetProperties(f)
    \/ \E f \in Figs : Script(f)
    \/ NewDrawing

SpecFig == InitFig /\ [][NextFig]_vars

\* a Viewer and its next() calls, with or without the LavaVu build
InitViewer ==
    /\ ctor = [filename |-> <<"vis">>, view |-> TRUE, disk |-> {<<"vis", "gldb">>}]
    /\ lavavu \in BOOLEAN
    /\ rank = 0
    /\ figs = {"F1"}
    /\ figobjs = [f \in Figs |-> IF f = "F1" THEN <<"a">> ELSE << >>]
    /\ Constructed({<< >>}, {<< >>})

NextViewer ==
    \/ NewViewer
    \/ SavedNext

SpecViewer == InitViewer /\ [][NextViewer]_vars

\* the operations on a drawing object
NextDraw ==
    \/ DrawingUpdate
    \/ NewDrawing

SpecDraw == InitFig /\ [][NextDraw]_vars

\* ------------------------------------------------------------------ claims
RECURSIVE ColourBars(_)
\* the colour bars nested in the objects of l, in order
ColourBars(l) ==
    IF l = << >> THEN << >>
    ELSE (IF ColourBarOf(Head(l)) # None THEN <<ColourBarOf(Head(l))>> ELSE << >>)
         \o ColourBars(Tail(l))
\* the local objects a render of figure f passes on: the figure's own, then
\* their colour bars
Overrides(f) == figobjs[f] \o ColourBars(figobjs[f])

\* the last operation was a render into a view-only store that wrote a state
ViewSaved == lastOp.op = "save" /\ viewonly[lastOp.store] /\ Len(wrote) = 1
Written == wrote[1].state
\* the persisted descriptors of the selected FigureState, as read
Persisted == lastOp.doc[sel].objects
\* the positions of the overrides named like the persisted descriptor d
Matches(f, d) ==
    {k \in 1..Len(Overrides(f)) : properties[Overrides(f)[k]]["name"] = d["name"]}
Max(S) == CHOOSE x \in S : \A y \in S : y <= x

\* C1: after a view-only render, a persisted descriptor is visible exactly when
\* there are no overrides at all or some override has its name, whatever its
\* visible flag was in the document read.
C1_VisibleByOverrides ==
    ViewSaved =>
        \A j \in 1..Len(Written.objects) :
            Written.objects[j]["visible"] =
                (\/ Overrides(lastOp.fig) = << >>
                 \/ Matches(lastOp.fig, Written.objects[j]) # {})

C1_Witness ==
    /\ ViewSaved
    /\ Overrides(lastOp.fig) # << >>
    /\ \E i, j \in 1..Len(Persisted) :
          /\ ~Persisted[i]["visible"] /\ Written.objects[i]["visible"]
          /\ Persisted[j]["visible"] /\ ~Written.objects[j]["visible"]

\* C2: a persisted descriptor matched by overrides ends up visible, holds for
\* each key other than visible the value of the latest matching override that
\* defines the key, and keeps its persisted value for the keys none defines.
C2_OverrideWins ==
    ViewSaved =>
        \A j \in 1..Len(Persisted) :
            LET old == Persisted[j]
                new == Written.objects[j]
                ov == Overrides(lastOp.fig)
                M == Matches(lastOp.fig, old)
            IN  M # {} =>
                  /\ new["visible"] = TRUE
                  /\ DOMAIN new = DOMAIN old \cup {"visible"}
                                  \cup UNION {DOMAIN properties[ov[k]] : k \in M}
                  /\ \A key \in DOMAIN new \ {"visible"} :
                        LET D == {k \in M : key \in DOMAIN properties[ov[k]]}
                        IN  new[key] = IF D # {} THEN properties[ov[Max(D)]][key]
                                       ELSE old[key]

C2_Witness ==
    /\ ViewSaved
    /\ \E j \in 1..Len(Persisted) :
          /\ Cardinality(Matches(lastOp.fig, Persisted[j])) = 2
          /\ figobjs[lastOp.fig] = <<"a", "b">>
          /\ properties["b"]["visible"] = FALSE
          /\ Written.objects[j]["visible"] = TRUE
          /\ Written.objects[j]["colour"] = "red"
          /\ Written.objects[j]["size"] = 1

\* C3: a view-only render against a non-empty document raises nothing and
\* selects the first FigureState whose figure is the requested name, or the
\* last FigureState of the document when there is none.
C3_SelectOrLast ==
    (/\ lastOp.op = "save" /\ viewonly[lastOp.store] /\ lavavu /\ rank = 0
     /\ lastOp.err = NoErr /\ Len(lastOp.doc) > 0)
    => /\ raised = NoErr
       /\ Len(wrote) = 1
       /\ sel \in 1..Len(lastOp.doc)
       /\ Written.figure = lastOp.doc[sel].figure
       /\ IF \E i \in 1..Len(lastOp.doc) : lastOp.doc[i].figure = lastOp.fig
          THEN /\ lastOp.doc[sel].figure = lastOp.fig
               /\ \A i \in 1..(sel - 1) : lastOp.doc[i].figure # lastOp.fig
          ELSE sel = Len(lastOp.doc)

C3_Witness ==
    /\ ViewSaved
    /\ raised = NoErr
    /\ Len(lastOp.doc) = 2
    /\ \A i \in 1..2 : lastOp.doc[i].figure # lastOp.fig
    /\ sel = 2

\* C4: a render of a figure that directly follows a render of the same figure
\* (both having written) writes the same state under the same name.
C4_RenderIdempotent == [][repeat' => wrote' = wrote]_vars

C4_Witness ==
    /\ repeat
    /\ ~viewonly[lastOp.store]
    /\ Len(objects[lastOp.store]) = 3
    /\ \E o \in Range(objects[lastOp.store]) : ~properties[o]["visible"]

\* C5: a name an object has is never changed or removed by a later operation.
C5_NamesStable ==
    [][\A o \in Obj : Has(properties[o], "name") =>
          /\ Has(properties'[o], "name")
          /\ properties'[o]["name"] = properties[o]["name"]]_vars

\* an object carries a default name made for another position than its own
C5_Witness ==
    \E s \in Stores : \E i \in 1..Len(objects[s]) :
        LET o == objects[s][i]
        IN  /\ Has(properties[o], "name")
            /\ properties[o]["name"] # "A"
            /\ properties[o]["name"] # DefaultName(properties[o], TypeTag(o), i - 1)

UserNames == {"A"}
UserNamesDistinct ==
    \A o1, o2 \in Obj :
        (/\ o1 # o2
         /\ Has(properties[o1], "name") /\ Has(properties[o2], "name")
         /\ properties[o1]["name"] \in UserNames)
        => properties[o1]["name"] # properties[o2]["name"]

\* C6: with pairwise distinct user-supplied names, after a render that met no
\* native error no two objects of a store's accumulated list have the same
\* name.
C6_UniqueNames ==
    (lastOp.op \in RenderOps /\ lastOp.err = NoErr /\ UserNamesDistinct) =>
        \A s \in Stores : \A i, j \in 1..Len(objects[s]) :
            (/\ i # j
             /\ Has(properties[objects[s][i]], "name")
             /\ Has(properties[objects[s][j]], "name"))
            => properties[objects[s][i]]["name"] # properties[objects[s][j]]["name"]

\* the mode the constructor arguments and the files then on disk call for
CtorMode ==
    LET fn == ctor.filename
        full == IF Len(fn) > 1 /\ Lower(fn[Len(fn)]) \in {"gldb", "db"}
                THEN fn ELSE fn \o <<"gldb">>
    IN  ctor.view /\ fn # << >> /\ full \in ctor.disk

\* C7: the store is view-only exactly when it was constructed with the view
\* flag and the name of a file that existed then (extension added), G's default
\* store is live, and no operation changes a store's mode.
C7_ModeFixed ==
    /\ [](viewonly["db"] = CtorMode /\ ~viewonly["own"])
    /\ [][viewonly' = viewonly]_vars

\* asked to view a file that only came to exist later: live, and stays live
C7_Witness ==
    /\ ctor.view /\ ctor.filename # << >>
    /\ Normalise(ctor.filename) \notin ctor.disk
    /\ Normalise(ctor.filename) \in disk
    /\ ~viewonly["db"]
    /\ lastOp.op = "save" /\ Len(wrote) = 1

ViewerResults == {"viewer", "image", "html", "states"}

C9_SingleRetry ==
    lastOp.op = "send" =>
        /\ Len(net.sent) <= 2
        /\ (Len(net.sent) >= 1 /\ ~net.sent[1]) =>
              /\ net.slept = 1 /\ net.retries = 1
              /\ (raised = NoErr => Len(net.sent) = 2)
        /\ (Len(net.sent) >= 1 /\ net.sent[1]) =>
              /\ Len(net.sent) = 1 /\ net.slept = 0 /\ net.retries = 0
              /\ raised = NoErr
        /\ (Len(net.sent) = 2 /\ ~net.sent[2]) =>
              /\ raised = NoErr
              /\ log[Len(log)] = "failed, skipping"
        /\ Len(net.sent) = 0 => net.slept = 0 /\ net.retries = 0

\* both transmissions of one call failed
C9_Witness ==
    /\ lastOp.op = "send"
    /\ net.sent = <<FALSE, FALSE>>
    /\ net.slept = 1
    /\ raised = NoErr

\* C10: no figure-render operation lets a RuntimeError reach its caller.
C10_NoRuntimeError == lastOp.op \in RenderOps => raised # "RuntimeError"

\* C11: off the root rank a render into a view-only store raises nothing and
\* writes no state.
C11_RankNoOp ==
    (lastOp.op = "save" /\ viewonly[lastOp.store] /\ rank > 0) =>
        (raised = NoErr /\ wrote = << >>)

\* the mappings figure f was given: at construction, then by the setter
Assigned(f) == <<FigProps0(f)>> \o propsLog[f]
\* the keys of the mappings in l
Keys(l) == UNION {DOMAIN l[i] : i \in 1..Len(l)}

\* C12: a figure's properties hold exactly the keys ever assigned, each with
\* the value of the latest assignment that contained it.
C12_LastWriteWins ==
    \A f \in figs :
        /\ DOMAIN figprops[f] = Keys(Assigned(f))
        /\ \A k \in Keys(Assigned(f)) :
              figprops[f][k] =
                Assigned(f)[Max({i \in 1..Len(Assigned(f)) : Has(Assigned(f)[i], k)})][k]

\* two assignments that overlap in one key and differ in the others
C12_Witness ==
    /\ propsLog["F1"] = <<[axis |-> FALSE, margin |-> 5], [title |-> "t4", margin |-> 7]>>
    /\ figprops["F1"] = [title |-> "t4", axis |-> FALSE, margin |-> 7]

\* C14: script() without an argument returns every command added so far, in
\* call order and joined by newlines, and leaves the script as it was.
C14_ScriptGet ==
    (lastOp.op = "script" /\ lastOp.arg.kind = "none") =>
        /\ ret = Join(added[lastOp.fig])
        /\ script[lastOp.fig] = added[lastOp.fig]

\* C16: the constructor accepts an opacity exactly when it is in [0, 1] or
\* equal to -1, and rejects the others with a ValueError.
C16_OpacityRange ==
    lastOp.op = "drawing" =>
        IF lastOp.arg \in 0..10 \/ lastOp.arg = -10
        THEN raised = NoErr /\ opacity = lastOp.arg
        ELSE raised = "ValueError"

\* the state a live render of figure f into store s writes, given the
\* figures' properties fp, the store's list objs and the objects' properties ps
LiveState(fp, objs, ps) ==
    [properties |-> fp, views |-> <<fp>>,
     objects |-> [i \in 1..Len(objs) |-> ps[objs[i]]]]

\* C13: save() without a filename that raises nothing writes the figure's
\* state under the figure's name, returns None, prints nothing, and constructs
\* a viewer only if the store had none.
C13_SaveStoresOnly ==
    [][(lastOp'.op = "save" /\ ~viewonly[lastOp'.store] /\ raised' = NoErr) =>
          /\ ret' = None
          /\ log' = << >>
          /\ Len(wrote') = 1
          /\ wrote'[1].figure = lastOp'.fig
          /\ wrote'[1].store = lastOp'.store
          /\ wrote'[1].state = LiveState(figprops'[lastOp'.fig],
                                        objects'[lastOp'.store], properties')
          /\ made'[lastOp'.store] =
                made[lastOp'.store]
                + (IF viewer[lastOp'.store] = 0 /\ lavavu /\ rank = 0 THEN 1 ELSE 0)]_vars

\* a save() of F2 that wrote the three objects of the store and made its viewer
C13_Witness ==
    /\ lastOp.op = "save" /\ lastOp.fig = "F2" /\ raised = NoErr
    /\ ret = None
    /\ Len(wrote) = 1
    /\ Len(wrote[1].state.objects) = 3
    /\ made["db"] = 1

\* the state read of the last operation failed or returned no state
ReadFailed == lastOp.err \in {"db", "viewer"} \/ lastOp.doc = << >>

\* C15: a view-only render whose state read fails or yields nothing raises
\* and writes no state; a viewer error is also printed.
C15_NoSubstitute ==
    (lastOp.op = "save" /\ viewonly[lastOp.store] /\ ReadFailed) =>
        /\ wrote = << >>
        /\ raised # NoErr
        /\ lastOp.err = "viewer" => log = <<"LavaVu error">>

\* the viewer failed while the document was being read
C15_Witness ==
    /\ lastOp.op = "save" /\ viewonly[lastOp.store]
    /\ lastOp.err = "viewer"
    /\ raised = "TypeError"
    /\ wrote = << >>

\* C17: an object that gets its name in an operation is in the list of the
\* store rendered into, and the name is ColourBar_<i> for a colour bar and
\* <type>_<i> otherwise, i being its zero-based position in that list.
C17_DefaultNames ==
    [][\A o \in Obj :
          (~Has(properties[o], "name") /\ Has(properties'[o], "name")) =>
             \E i \in 1..Len(objects'[lastOp'.store]) :
                /\ objects'[lastOp'.store][i] = o
                /\ properties'[o]["name"] =
                      (IF o = "k" THEN "ColourBar" ELSE TypeTag(o))
                      \o "_" \o ToString(i - 1)]_vars

\* b, first in F2's own list, is named for its third place in the store's list
C17_Witness ==
    /\ figobjs["F2"][1] = "b"
    /\ objects["db"] = <<"a", "k", "b">>
    /\ properties["b"]["name"] = "Points_2"
    /\ properties["k"]["name"] = "ColourBar_1"

\* the objects of figure f and the colour bars they own
ActiveSet(f) ==
    Range(figobjs[f]) \cup {ColourBarOf(o) : o \in Range(figobjs[f])}

\* C18: after a live render of figure f every object of the store's list is
\* visible exactly when it is one of f's objects or a colour bar of one.
C18_VisibleIffActive ==
    (lastOp.op \in RenderOps /\ ~viewonly[lastOp.store]) =>
        \A i \in 1..Len(objects[lastOp.store]) :
            LET o == objects[lastOp.store][i]
            IN  /\ Has(properties[o], "visible")
                /\ properties[o]["visible"] = (o \in ActiveSet(lastOp.fig))

\* a and its colour bar, shown by a render of F1, are hidden by one of F2
C18_Witness ==
    /\ lastOp.op \in RenderOps /\ lastOp.fig = "F2"
    /\ figobjs["F2"] = <<"b">>
    /\ objects["db"] = <<"a", "k", "b">>
    /\ ~properties["a"]["visible"]
    /\ ~properties["k"]["visible"]
    /\ properties["b"]["visible"]

\* C19: every state a live render writes has the figure's properties, one
\* view holding the same mapping, and the properties of every object of the
\* store's list, in order and each once.
C19_WrittenState ==
    (lastOp.op \in RenderOps /\ ~viewonly[lastOp.store]) =>
        \A n \in 1..Len(wrote) :
            /\ wrote[n].state.properties = figprops[lastOp.fig]
            /\ wrote[n].state.views = <<figprops[lastOp.fig]>>
            /\ Len(wrote[n].state.objects) = Len(objects[lastOp.store])
            /\ \A i \in 1..Len(objects[lastOp.store]) :
                  /\ wrote[n].state.objects[i] = properties[objects[lastOp.store][i]]
                  /\ \A j \in 1..Len(objects[lastOp.store]) :
                        objects[lastOp.store][i] = objects[lastOp.store][j] => i = j

\* a state written with a hidden object of another figure in it
C19_Witness ==
    /\ lastOp.op \in RenderOps /\ lastOp.fig = "F1"
    /\ Len(wrote) = 1
    /\ objects["db"] = <<"b", "a", "k">>
    /\ figobjs["F1"] = <<"a">>
    /\ ~wrote[1].state.objects[1]["visible"]
    /\ wrote[1].state.properties = [title |-> "t1"]

\* p updated by q, key by key
Merged(p, q, w) ==
    /\ DOMAIN w = DOMAIN p \cup DOMAIN q
    /\ \A k \in DOMAIN q : w[k] = q[k]
    /\ \A k \in DOMAIN p \ DOMAIN q : w[k] = p[k]

\* C20: a view-only render writes the selected state with the figure's
\* properties merged into its properties and into its first view, and
\* with the other views as read.
C20_PropsMerged ==
    ViewSaved =>
        /\ Merged(lastOp.doc[sel].properties, figprops[lastOp.fig], Written.properties)
        /\ Merged(lastOp.doc[sel].views[1], figprops[lastOp.fig], Written.views[1])
        /\ Len(Written.views) = Len(lastOp.doc[sel].views)
        /\ \A j \in 2..Len(Written.views) : Written.views[j] = lastOp.doc[sel].views[j]

\* F2's title and axis have gone into the properties and the first view
C20_Witness ==
    /\ ViewSaved /\ lastOp.fig = "F2"
    /\ Written.properties = [title |-> "t2", axis |-> TRUE, zoomstep |-> 0]
    /\ Written.views = <<[title |-> "t2", axis |-> TRUE, rotate |-> 1], PView2>>

\* C21: a view-only render that raises nothing makes exactly one write, of the
\* whole reconciled state, under the requested figure name, also when the
\* state selected is one of another figure.
C21_OneWriteByName ==
    (lastOp.op = "save" /\ viewonly[lastOp.store] /\ raised = NoErr) =>
        /\ Len(wrote) = 1
        /\ wrote[1].figure = lastOp.fig
        /\ wrote[1].store = lastOp.store
        /\ DOMAIN wrote[1].state = {"figure", "properties", "views", "objects"}
        /\ wrote[1].state.figure = lastOp.doc[sel].figure
        /\ Len(wrote[1].state.objects) = Len(lastOp.doc[sel].objects)

\* no state of the document is F2's: the last one, Old, is written as F2
C21_Witness ==
    /\ ViewSaved /\ lastOp.fig = "F2"
    /\ Len(lastOp.doc) = 2 /\ sel = 2
    /\ wrote[1].figure = "F2"
    /\ wrote[1].state.figure = "Old"

\* C22: a close_viewer that returns leaves the figure with no tracked process
\* and no live process; if a process was alive it was killed after one or
\* two transmissions of quit, and if none was alive nothing was sent or killed.
C22_CloseQuitsThenKills ==
    [][(lastOp'.op = "close" /\ raised' = NoErr) =>
          /\ viewerProc'[lastOp'.fig] = "none"
          /\ procs'[lastOp'.fig] = 0
          /\ IF viewerProc[lastOp'.fig] = "alive"
             THEN /\ Len(net'.sent) \in {1, 2}
                  /\ net'.kill = Len(net'.sent)
                  /\ Len(net'.sent) = 2 => (~net'.sent[1] /\ net'.slept = 1)
             ELSE /\ net'.sent = << >>
                  /\ net'.kill = -1
                  /\ net'.spawns = 0]_vars

\* quit went unanswered twice, the process exited during the wait, the retry
\* spawned another one, and that one was killed
C22_Witness ==
    /\ lastOp.op = "close" /\ raised = NoErr
    /\ net.sent = <<FALSE, FALSE>>
    /\ net.spawns = 1
    /\ net.kill = 2
    /\ procs["F1"] = 0

\* C27: a figure never has more than one live viewer process, and its
\* live process is the one it tracks.
C27_OneProcess ==
    \A f \in Figs :
        /\ procs[f] <= 1
        /\ procs[f] = 1 <=> viewerProc[f] = "alive"

\* open_viewer, directly or through send_command, found the process running
\* and spawned none
C27_Witness ==
    /\ lastOp.op \in {"open", "send"} /\ raised = NoErr
    /\ net.spawns = 0
    /\ procs[lastOp.fig] = 1
    /\ viewerProc[lastOp.fig] = "alive"

\* C23: off the root rank, or without the rendering module, no viewer
\* instance is ever constructed, no viewer process spawned and no command sent.
C23_OffRootNoViewer ==
    (rank > 0 \/ ~lavavu) =>
        /\ \A s \in Stores : made[s] = 0 /\ viewer[s] = 0
        /\ \A f \in Figs : procs[f] = 0 /\ viewerProc[f] = "none"
        /\ net.sent = << >>
        /\ net.spawns = 0

\* send_command has returned on rank 1 after a render into the live store
C23_Witness ==
    /\ rank = 1 /\ lavavu
    /\ lastOp.op = "send" /\ raised = NoErr
    /\ objects["db"] # << >>

\* C24: _updateProperties without overwrite keeps every existing key with its
\* value and adds the missing keys of newProps; with overwrite the values of
\* newProps replace the existing ones.
C24_KeepExisting ==
    lastOp.op = "update" =>
        IF lastOp.arg.overwrite
        THEN Merged(lastOp.arg.old, lastOp.arg.new, dprops)
        ELSE Merged(lastOp.arg.new, lastOp.arg.old, dprops)

\* C25: for a Viewer holding n >= 1 figures, the first next() returns the
\* first figure, the first n calls return every figure exactly once, and call
\* n+1 returns the figure of call 1.
C25_NextCycles ==
    LET n == Len(saved.keys)
        out == saved.out IN
    n >= 1 =>
        /\ Len(out) >= 1 => out[1] = saved.keys[1]
        /\ Len(out) >= n =>
              /\ {out[i] : i \in 1..n} = {saved.keys[i] : i \in 1..n}
              /\ \A i, j \in 1..n : i # j => out[i] # out[j]
        /\ Len(out) >= n + 1 => out[n + 1] = out[1]

C25_Witness ==
    /\ Len(saved.keys) = 3
    /\ Len(saved.out) = 4
    /\ lastOp.op = "next"

NoDuplicate(q) == \A i, j \in 1..Len(q) : i # j => q[i] # q[j]
IsPrefix(p, q) == Len(p) <= Len(q) /\ \A i \in 1..Len(p) : q[i] = p[i]

\* C26: a store's list never holds an object twice; every operation other
\* than Store.empty() keeps the list it found as a prefix of the list it
\* leaves, so that entries keep their positions and only empty() removes
\* them; and a render leaves every object of its figure, and every nested
\* colour bar, in the list. Together: the list holds every object of every
\* figure rendered since the last empty().
C26_StoreListGrows ==
    [][\A s \in Stores :
          /\ NoDuplicate(objects'[s])
          /\ IF lastOp'.op = "empty" /\ lastOp'.store = s
             THEN objects'[s] = << >>
             ELSE IsPrefix(objects[s], objects'[s])
          /\ (lastOp'.op \in RenderOps /\ lastOp'.store = s) =>
                (ActiveSet(lastOp'.fig) \ {None}) \subseteq Range(objects'[s])]_vars

\* F2, rendered after F1, shares the object a with it: a and its colour bar
\* stay where the render of F1 put them and b follows
C26_Witness ==
    /\ lastOp.op \in RenderOps /\ lastOp.fig = "F2"
    /\ figobjs["F2"] = <<"b", "a">>
    /\ objects["db"] = <<"a", "k", "b">>

====
